---- MODULE Spec2Model ----
\* Gameweek lifecycle and points settlement of the fantasy-sports application:
\* the stored procedures calculate_fantasy_team_points, finalize_gameweek,
\* update_gameweek_status (src/unnamed/part_000) and the GameweekManager
\* operations that call them (src/src/hooks/useGameweek.ts).
EXTENDS Integers, Sequences, FiniteSets, TLC

\* ---------------------------------------------------------------- bounds
NumGW == 3          \* gameweek numbers range over 1..NumGW
MaxTime == 3        \* the clock runs over 0..MaxTime
NumTeams == 2       \* fantasy teams 1..NumTeams
TimeSlots == 2      \* unconstrained timestamps range over 1..TimeSlots
MaxPoints == 1      \* unconstrained player scores range over -1..MaxPoints

\* SQL NULL, for the nullable columns (timestamps, rank, rank_in_league, league_id)
NULL == -1

GwNumbers == 1..NumGW
Teams == 1..NumTeams
Players == 1..4

Status == {"upcoming", "active", "locked", "finalized"}
MatchStatus == {"scheduled", "live", "completed", "postponed"}

VARIABLES
  now,                            \* wall clock read by now()
  gameweeks,                      \* table gameweeks, keyed by gameweek_number
  real_matches,                   \* table real_matches, keyed by match id
  fantasy_teams,                  \* table fantasy_teams, keyed by fantasy_team_id
  fantasy_team_gameweek_points,   \* the points ledger, keyed by <<team, gameweek>>
  rosters,                        \* table rosters: team -> set of roster entries
  players,                        \* table players: player_id -> position
  gameweek_scores,                \* table gameweek_scores, keyed by <<player, gameweek>>
  last,                           \* the last call made and its outcome
  finalized_through,              \* k when the successful finalize_gameweek calls so far
                                  \* were for gameweeks 1, 2, .., k in this order, else NULL
  returned,                       \* the value the last function call returned (NULL: none)
  txn,                            \* the finalize_gameweek transaction in progress, if any
  gameweekStatus,                 \* the status object useGameweek holds and publishes
  selectedGameweek,               \* GameweekManager's selected gameweek (NULL: none)
  users,                          \* table users, keyed by user_id
  leagues,                        \* table leagues, keyed by league_id
  manager                         \* GameweekManager's state: its gameweeks list, its
                                  \* processing flag, the toasts of its last handler

vars == <<now, gameweeks, real_matches, fantasy_teams, fantasy_team_gameweek_points,
          rosters, players, gameweek_scores, last, finalized_through, returned,
          txn, gameweekStatus, selectedGameweek, users, leagues, manager>>

\* useState<GameweekStatus>({...}): the hook's status before its first publication
initial_status ==
  [current |-> NULL, next |-> NULL, transfersAllowed |-> TRUE, timeUntilDeadline |-> NULL,
   timeUntilStart |-> NULL, timeUntilEnd |-> NULL, isGameweekActive |-> FALSE]

\* useState([]) for gameweeks, useState(false) for processing, no toast shown
unmounted == [gameweeks |-> << >>, processing |-> FALSE, toasts |-> {}]

\* no finalize_gameweek call is running
no_txn == [pc |-> "idle"]

\* ---------------------------------------------------------------- helpers
RECURSIVE SumOver(_, _)
SumOver(f, S) ==
  IF S = {} THEN 0
  ELSE LET x == CHOOSE y \in S : TRUE IN f[x] + SumOver(f, S \ {x})

MaxOf(S) == CHOOSE x \in S : \A y \in S : y <= x
MinOf(S) == CHOOSE x \in S : \A y \in S : x <= y

\* ------------------------------------------- calculate_fantasy_team_points
\* COALESCE(gs.total_points, 0) / COALESCE(gs.minutes_played, 0) of the LEFT JOIN
player_points(p, gw) ==
  IF <<p, gw>> \in DOMAIN gameweek_scores THEN gameweek_scores[<<p, gw>>].total_points ELSE 0

minutes_played(p, gw) ==
  IF <<p, gw>> \in DOMAIN gameweek_scores THEN gameweek_scores[<<p, gw>>].minutes_played ELSE 0

\* the bench players the substitute query ranges over for starter entry e
substitute_candidates(team, gw, e) ==
  { r2 \in rosters[team] :
      /\ r2.is_starter = FALSE
      /\ players[r2.player_id] = players[e.player_id]
      /\ minutes_played(r2.player_id, gw) > 0 }

\* ORDER BY gs2.total_points DESC NULLS LAST LIMIT 1: the sub_points of the row found
sub_points(team, gw, e) ==
  MaxOf({ player_points(r2.player_id, gw) : r2 \in substitute_candidates(team, gw, e) })

\* the bench rows that query can return for starter entry e: a candidate with the
\* highest total_points (LIMIT 1 picks any of them on a tie)
substitute_rows(team, gw, e) ==
  { r2 \in substitute_candidates(team, gw, e) :
      player_points(r2.player_id, gw) = sub_points(team, gw, e) }

\* mutant: no substitution, a starter always contributes his own recorded points
contribution_no_substitute(team, gw, e) ==
  IF ~e.is_starter THEN 0 ELSE player_points(e.player_id, gw)

\* what one pass of the loop body adds to total_points for roster entry e
contribution(team, gw, e) ==
  IF ~e.is_starter THEN 0
  ELSE IF minutes_played(e.player_id, gw) = 0
       THEN IF substitute_candidates(team, gw, e) # {} THEN sub_points(team, gw, e) ELSE 0
       ELSE player_points(e.player_id, gw)

\* mutant: a substituted captain keeps his own recorded points as captain_points
captain_points_own(team, gw) ==
  LET caps == { e \in rosters[team] :
                  /\ e.is_starter /\ e.is_captain
                  /\ \/ minutes_played(e.player_id, gw) # 0
                     \/ substitute_candidates(team, gw, e) # {} }
  IN IF caps = {} THEN 0
     ELSE player_points((CHOOSE e \in caps : TRUE).player_id, gw)

\* captain_points when the loop ends (0 unless a starting captain contributed)
captain_points(team, gw) ==
  LET caps == { e \in rosters[team] :
                  /\ e.is_starter /\ e.is_captain
                  /\ \/ minutes_played(e.player_id, gw) # 0
                     \/ substitute_candidates(team, gw, e) # {} }
  IN IF caps = {} THEN 0
     ELSE contribution(team, gw, CHOOSE e \in caps : TRUE)

\* vice_captain_id: the roster row flagged is_vice_captain, if any
vice_captain_ids(team) == { e.player_id : e \in { r \in rosters[team] : r.is_vice_captain } }

\* the ELSIF branch: SELECT COALESCE(gs.total_points, 0) INTO captain_points for the
\* vice-captain; with no score row captain_points becomes NULL and nothing is added
vice_captain_bonus(team, gw) ==
  IF vice_captain_ids(team) = {} THEN 0
  ELSE LET vc == CHOOSE p \in vice_captain_ids(team) : TRUE
       IN IF <<vc, gw>> \in DOMAIN gameweek_scores /\ gameweek_scores[<<vc, gw>>].total_points > 0
          THEN gameweek_scores[<<vc, gw>>].total_points
          ELSE 0

\* mutant: no ELSIF branch, the vice-captain never stands in
captain_bonus_no_fallback(team, gw) ==
  IF captain_points(team, gw) > 0 THEN captain_points(team, gw) ELSE 0

\* the IF / ELSIF after the loop: what is added to total_points as bonus
captain_bonus(team, gw) ==
  IF captain_points(team, gw) > 0 THEN captain_points(team, gw)
  ELSE vice_captain_bonus(team, gw)

\* mutant: the captain multiplier block is missing
calculate_fantasy_team_points_no_bonus(team, gw) ==
  LET c == [e \in rosters[team] |-> contribution(team, gw, e)]
  IN SumOver(c, rosters[team])

calculate_fantasy_team_points(team, gw) ==
  LET c == [e \in rosters[team] |-> contribution(team, gw, e)]
  IN SumOver(c, rosters[team]) + captain_bonus(team, gw)

\* ------------------------------------------------- update_gameweek_status
\* a comparison of SQL is true only when neither side is NULL
in_window(gw, t) ==
  /\ gw.start_time # NULL /\ gw.end_time # NULL
  /\ t >= gw.start_time /\ t <= gw.end_time

before_start(gw, t) == gw.start_time # NULL /\ t < gw.start_time

\* mutant: the fallback SELECT is missing
current_gw_no_fallback(gws, t) ==
  LET byTimeOrStatus == { g \in DOMAIN gws : in_window(gws[g], t) \/ gws[g].status = "active" }
  IN IF byTimeOrStatus # {} THEN MinOf(byTimeOrStatus) ELSE NULL

\* first SELECT ... INTO current_gw, then the fallback SELECT when it found nothing
current_gw(gws, t) ==
  LET byTimeOrStatus == { g \in DOMAIN gws : in_window(gws[g], t) \/ gws[g].status = "active" }
      upcomingOnes   == { g \in DOMAIN gws :
                            gws[g].status \in {"upcoming", "locked"} \/ before_start(gws[g], t) }
  IN IF byTimeOrStatus # {} THEN MinOf(byTimeOrStatus)
     ELSE IF upcomingOnes # {} THEN MinOf(upcomingOnes)
     ELSE NULL

\* mutant: WHERE gameweek_number = current_gw + 1
next_gw_adjacent(gws, cur) ==
  IF cur # NULL /\ cur + 1 \in DOMAIN gws THEN cur + 1 ELSE NULL

\* SELECT gameweek_number INTO next_gw ... WHERE gameweek_number > current_gw
next_gw(gws, cur) ==
  IF cur = NULL THEN NULL
  ELSE LET later == { g \in DOMAIN gws : g > cur }
       IN IF later # {} THEN MinOf(later) ELSE NULL

\* mutant: the CASE has no WHEN status = 'finalized' branch
status_by_time_unsticky(gw, t) ==
  IF gw.deadline_time = NULL \/ gw.start_time = NULL \/ gw.end_time = NULL THEN gw.status
  ELSE IF t < gw.deadline_time THEN "upcoming"
  ELSE IF t >= gw.deadline_time /\ t < gw.start_time THEN "locked"
  ELSE IF t >= gw.start_time /\ t <= gw.end_time THEN "active"
  ELSE IF t > gw.end_time THEN "finalized"
  ELSE gw.status

\* mutant: the active window excludes end_time (current_time < end_time)
status_by_time_open_end(gw, t) ==
  IF gw.deadline_time = NULL \/ gw.start_time = NULL \/ gw.end_time = NULL THEN gw.status
  ELSE IF gw.status = "finalized" THEN "finalized"
  ELSE IF t < gw.deadline_time THEN "upcoming"
  ELSE IF t >= gw.deadline_time /\ t < gw.start_time THEN "locked"
  ELSE IF t >= gw.start_time /\ t < gw.end_time THEN "active"
  ELSE IF t > gw.end_time THEN "finalized"
  ELSE gw.status

\* the CASE of the final UPDATE, for one row
status_by_time(gw, t) ==
  IF gw.deadline_time = NULL \/ gw.start_time = NULL \/ gw.end_time = NULL THEN gw.status
  ELSE IF gw.status = "finalized" THEN "finalized"
  ELSE IF t < gw.deadline_time THEN "upcoming"
  ELSE IF t >= gw.deadline_time /\ t < gw.start_time THEN "locked"
  ELSE IF t >= gw.start_time /\ t <= gw.end_time THEN "active"
  ELSE IF t > gw.end_time THEN "finalized"
  ELSE gw.status

\* the gameweeks table the procedure leaves, called on table gws at time t
resolved(gws, t) ==
  LET cur == current_gw(gws, t)
      nxt == next_gw(gws, cur)
  IN [g \in DOMAIN gws |->
        [gws[g] EXCEPT !.is_current = (g = cur),
                       !.is_next = (g = nxt),
                       !.status = status_by_time(gws[g], t)]]

update_gameweek_status ==
  /\ gameweeks' = resolved(gameweeks, now)
  /\ last' = [op |-> "update_gameweek_status", arg |-> 0, ok |-> TRUE]
  /\ UNCHANGED <<now, real_matches, fantasy_teams, fantasy_team_gameweek_points,
                 rosters, players, gameweek_scores, finalized_through, returned,
                 txn, gameweekStatus, selectedGameweek, users, leagues, manager>>

\* ------------------------------------------------------ finalize_gameweek
\* mutant: only a live match blocks (status = 'live')
has_live_match(p_gameweek) ==
  \E m \in DOMAIN real_matches :
     real_matches[m].gameweek = p_gameweek /\ real_matches[m].status = "live"

\* IF EXISTS (SELECT 1 FROM real_matches WHERE gameweek = p_gameweek AND status != 'completed')
has_incomplete_match(p_gameweek) ==
  \E m \in DOMAIN real_matches :
     real_matches[m].gameweek = p_gameweek /\ real_matches[m].status # "completed"

\* INSERT ... ON CONFLICT (fantasy_team_id, gameweek) DO UPDATE SET points = EXCLUDED.points
upsert_points(ledger, team, gw, pts) ==
  IF <<team, gw>> \in DOMAIN ledger
  THEN [ledger EXCEPT ![<<team, gw>>].points = pts]
  ELSE ledger @@ (<<team, gw>> :> [points |-> pts, rank_in_league |-> NULL])

\* the first loop's ledger: one upsert per fantasy team
RECURSIVE upsert_all(_, _, _)
upsert_all(ledger, ts, gw) ==
  IF ts = {} THEN ledger
  ELSE LET t == MinOf(ts)
       IN upsert_all(upsert_points(ledger, t, gw, calculate_fantasy_team_points(t, gw)),
                     ts \ {t}, gw)

\* mutant: the previous snapshot is not subtracted from total_points
settle_team_add_only(ft, team_points, p_gameweek) ==
  [ft EXCEPT !.total_points = ft.total_points + team_points,
             !.gameweek_points = team_points,
             !.current_gameweek = p_gameweek + 1,
             !.transfers_made_this_gw = 0,
             !.transfers_banked = IF ft.transfers_banked + 1 < 1 THEN ft.transfers_banked + 1 ELSE 1]

\* the first loop's UPDATE fantasy_teams, for one team
settle_team(ft, team_points, p_gameweek) ==
  [ft EXCEPT !.total_points = ft.total_points + team_points - ft.gameweek_points,
             !.gameweek_points = team_points,
             !.current_gameweek = p_gameweek + 1,
             !.transfers_made_this_gw = 0,
             !.transfers_banked = IF ft.transfers_banked + 1 < 1 THEN ft.transfers_banked + 1 ELSE 1]

\* mutant: members with equal points share a rank (a dense ranking)
league_rankings_shared(fts, ledger, p_gameweek) ==
  { [a \in { t \in DOMAIN fts : fts[t].league_id # NULL } |->
       1 + Cardinality({ b \in DOMAIN fts :
                           /\ fts[b].league_id = fts[a].league_id
                           /\ ledger[<<b, p_gameweek>>].points > ledger[<<a, p_gameweek>>].points })] }

\* the orders ORDER BY fgp.points DESC may return the members of one league in:
\* rk gives each ranked team its rank_counter value
league_rankings(fts, ledger, p_gameweek) ==
  { rk \in [{ t \in DOMAIN fts : fts[t].league_id # NULL } -> 1..Cardinality(DOMAIN fts)] :
      \A a \in DOMAIN rk :
         LET members == { b \in DOMAIN rk : fts[b].league_id = fts[a].league_id }
         IN /\ rk[a] <= Cardinality(members)
            /\ \A b \in members \ {a} :
                  /\ rk[a] # rk[b]
                  /\ ledger[<<a, p_gameweek>>].points > ledger[<<b, p_gameweek>>].points
                       => rk[a] < rk[b] }

\* mutant: ORDER BY total_points DESC, fantasy_team_id DESC
overall_rank_id_descending(fts, t) ==
  1 + Cardinality({ u \in DOMAIN fts :
                      \/ fts[u].total_points > fts[t].total_points
                      \/ fts[u].total_points = fts[t].total_points /\ u > t })

\* ORDER BY total_points DESC, fantasy_team_id: the rank_counter value of team t
overall_rank(fts, t) ==
  1 + Cardinality({ u \in DOMAIN fts :
                      \/ fts[u].total_points > fts[t].total_points
                      \/ fts[u].total_points = fts[t].total_points /\ u < t })

\* mutant: the third UPDATE (is_next of p_gameweek + 2) is missing
advance_gameweeks_no_next(gws, p_gameweek) ==
  [g \in DOMAIN gws |->
     IF g = p_gameweek
     THEN [gws[g] EXCEPT !.status = "finalized", !.is_finished = TRUE, !.is_current = FALSE]
     ELSE IF g = p_gameweek + 1
     THEN [gws[g] EXCEPT !.status = "active", !.is_current = TRUE, !.is_next = FALSE]
     ELSE gws[g]]

\* the three UPDATE gameweeks statements that end the procedure
advance_gameweeks(gws, p_gameweek) ==
  [g \in DOMAIN gws |->
     IF g = p_gameweek
     THEN [gws[g] EXCEPT !.status = "finalized", !.is_finished = TRUE, !.is_current = FALSE]
     ELSE IF g = p_gameweek + 1
     THEN [gws[g] EXCEPT !.status = "active", !.is_current = TRUE, !.is_next = FALSE]
     ELSE IF g = p_gameweek + 2
     THEN [gws[g] EXCEPT !.is_next = TRUE]
     ELSE gws[g]]

finalize_gameweek_rpc(p_gameweek) ==
  IF has_incomplete_match(p_gameweek)
  THEN \* RAISE EXCEPTION: the call fails and nothing is written
       /\ last' = [op |-> "finalize_gameweek", arg |-> p_gameweek, ok |-> FALSE]
       /\ UNCHANGED <<now, gameweeks, real_matches, fantasy_teams,
                      fantasy_team_gameweek_points, rosters, players, gameweek_scores,
                      finalized_through, returned,
                      txn, gameweekStatus, selectedGameweek, users, leagues>>
  ELSE \* ledger1, teams1: the ledger and the teams when the first loop ends
       \E ledger1 \in {upsert_all(fantasy_team_gameweek_points, DOMAIN fantasy_teams, p_gameweek)} :
       \E teams1 \in {[t \in DOMAIN fantasy_teams |->
                         settle_team(fantasy_teams[t], ledger1[<<t, p_gameweek>>].points,
                                     p_gameweek)]} :
          /\ \E rk \in league_rankings(teams1, ledger1, p_gameweek) :
               fantasy_team_gameweek_points' =
                 [k \in DOMAIN ledger1 |->
                    IF k[2] = p_gameweek /\ k[1] \in DOMAIN rk
                    THEN [ledger1[k] EXCEPT !.rank_in_league = rk[k[1]]]
                    ELSE ledger1[k]]
          /\ fantasy_teams' = [t \in DOMAIN teams1 |->
                                 [teams1[t] EXCEPT !.rank = overall_rank(teams1, t)]]
          /\ gameweeks' = advance_gameweeks(gameweeks, p_gameweek)
          /\ last' = [op |-> "finalize_gameweek", arg |-> p_gameweek, ok |-> TRUE]
          /\ finalized_through' = IF finalized_through # NULL /\ p_gameweek = finalized_through + 1
                                  THEN p_gameweek ELSE NULL
          /\ UNCHANGED <<now, real_matches, rosters, players, gameweek_scores, returned,
                         txn, gameweekStatus, selectedGameweek, users, leagues>>

\* the function called by a session other than the manager's
finalize_gameweek(p_gameweek) == finalize_gameweek_rpc(p_gameweek) /\ UNCHANGED manager

\* -------------------------------- finalize_gameweek, statement by statement
\* The procedure body as the store runs it: one transaction, whose writes other
\* sessions see when the call returns. txn holds the call's own view of the ledger
\* and of fantasy_teams; txn.pc names the last statement group that has run.

\* mutant: every statement's writes are visible at once (no enclosing transaction)
writes_visible_every_statement(pc) == TRUE

\* the point where the call's writes become visible: the function has returned
writes_visible(pc) == pc = "flags"

\* BEGIN ... the completed-matches check
finalize_begin(p_gameweek) ==
  /\ txn.pc = "idle"
  /\ IF has_incomplete_match(p_gameweek)
     THEN /\ last' = [op |-> "finalize_gameweek", arg |-> p_gameweek, ok |-> FALSE]
          /\ txn' = txn
     ELSE /\ last' = [op |-> "finalize_begin", arg |-> p_gameweek, ok |-> TRUE]
          /\ txn' = [pc |-> "checked", g |-> p_gameweek,
                     ledger |-> fantasy_team_gameweek_points, teams |-> fantasy_teams]
  /\ UNCHANGED <<now, gameweeks, real_matches, fantasy_teams, fantasy_team_gameweek_points,
                 rosters, players, gameweek_scores, finalized_through, returned,
                 gameweekStatus, selectedGameweek, users, leagues, manager>>

\* the call's view after its next statement group: the team loop, the league
\* rankings, the overall rankings, the three UPDATE gameweeks
finalize_views(t) ==
  IF t.pc = "checked"
  THEN LET ledger1 == upsert_all(t.ledger, DOMAIN t.teams, t.g)
       IN {[t EXCEPT !.pc = "points", !.ledger = ledger1,
                     !.teams = [u \in DOMAIN t.teams |->
                                  settle_team(t.teams[u], ledger1[<<u, t.g>>].points, t.g)]]}
  ELSE IF t.pc = "points"
  THEN { [t EXCEPT !.pc = "league_ranks",
                   !.ledger = [k \in DOMAIN t.ledger |->
                                 IF k[2] = t.g /\ k[1] \in DOMAIN rk
                                 THEN [t.ledger[k] EXCEPT !.rank_in_league = rk[k[1]]]
                                 ELSE t.ledger[k]]] :
           rk \in league_rankings(t.teams, t.ledger, t.g) }
  ELSE IF t.pc = "league_ranks"
  THEN {[t EXCEPT !.pc = "overall_ranks",
                  !.teams = [u \in DOMAIN t.teams |->
                               [t.teams[u] EXCEPT !.rank = overall_rank(t.teams, u)]]]}
  ELSE {[t EXCEPT !.pc = "flags"]}

finalize_statement ==
  /\ txn.pc \in {"checked", "points", "league_ranks", "overall_ranks"}
  /\ \E t1 \in finalize_views(txn) :
       /\ IF writes_visible(t1.pc)
          THEN /\ fantasy_team_gameweek_points' = t1.ledger
               /\ fantasy_teams' = t1.teams
          ELSE UNCHANGED <<fantasy_team_gameweek_points, fantasy_teams>>
       /\ IF t1.pc = "flags"
          THEN \* the last statements ran and the function returns
               /\ gameweeks' = advance_gameweeks(gameweeks, t1.g)
               /\ txn' = no_txn
               /\ last' = [op |-> "finalize_gameweek", arg |-> t1.g, ok |-> TRUE]
               /\ finalized_through' =
                    IF finalized_through # NULL /\ t1.g = finalized_through + 1
                    THEN t1.g ELSE NULL
          ELSE /\ txn' = t1
               /\ last' = [op |-> "finalize_statement", arg |-> t1.g, ok |-> TRUE]
               /\ UNCHANGED <<gameweeks, finalized_through>>
  /\ UNCHANGED <<now, real_matches, rosters, players, gameweek_scores, returned,
                 gameweekStatus, selectedGameweek, users, leagues, manager>>

\* a statement fails (the store is lost, the call is cancelled): the call's
\* writes are rolled back
finalize_abort ==
  /\ txn.pc # "idle"
  /\ txn' = no_txn
  /\ last' = [op |-> "finalize_gameweek", arg |-> txn.g, ok |-> FALSE]
  /\ UNCHANGED <<now, gameweeks, real_matches, fantasy_teams, fantasy_team_gameweek_points,
                 rosters, players, gameweek_scores, finalized_through, returned,
                 gameweekStatus, selectedGameweek, users, leagues, manager>>

\* the function called on its own, for one team and one gameweek
call_calculate_fantasy_team_points(team, gw) ==
  /\ returned' = calculate_fantasy_team_points(team, gw)
  /\ last' = [op |-> "calculate_fantasy_team_points", arg |-> team, ok |-> TRUE]
  /\ UNCHANGED <<now, gameweeks, real_matches, fantasy_teams, fantasy_team_gameweek_points,
                 rosters, players, gameweek_scores, finalized_through,
                 txn, gameweekStatus, selectedGameweek, users, leagues, manager>>

\* ------------------------------------------------------- transfers_allowed
\* mutant: the gate looks at passed deadlines only
transfers_allowed_deadline_only(gws, t) ==
  ~ \E g \in DOMAIN gws :
       /\ gws[g].status \in {"upcoming", "locked"}
       /\ gws[g].deadline_time # NULL /\ t >= gws[g].deadline_time

\* has_active_gw, the two assignments of deadline_passed, and the RETURN reached
transfers_allowed(gws, t) ==
  LET has_active_gw == \E g \in DOMAIN gws : gws[g].status = "active"
      deadline_passed_1 ==
        \E g \in DOMAIN gws :
           /\ gws[g].status \in {"upcoming", "locked"}
           /\ gws[g].deadline_time # NULL /\ t >= gws[g].deadline_time
      deadline_passed_2 ==
        ~ \E g \in DOMAIN gws :
             /\ gws[g].status = "upcoming"
             /\ gws[g].deadline_time # NULL /\ t >= gws[g].deadline_time
  IN IF ~has_active_gw
     THEN IF ~deadline_passed_1 THEN ~deadline_passed_2 ELSE ~deadline_passed_1
     ELSE FALSE

call_transfers_allowed ==
  /\ returned' = transfers_allowed(gameweeks, now)
  /\ last' = [op |-> "transfers_allowed", arg |-> 0, ok |-> TRUE]
  /\ UNCHANGED <<now, gameweeks, real_matches, fantasy_teams, fantasy_team_gameweek_points,
                 rosters, players, gameweek_scores, finalized_through,
                 txn, gameweekStatus, selectedGameweek, users, leagues, manager>>

\* ------------------------------------------- useGameweek.fetchGameweekStatus
\* how the transfers_allowed rpc can end: data returned, an error returned in the
\* result object, or the call rejecting (throwing)
RpcOutcome == {"data", "error", "rejected"}

\* gameweeks?.find(gw => gw.is_current) over the rows in gameweek_number order
find_flagged(gws, flag) ==
  LET found == { g \in DOMAIN gws : gws[g][flag] }
  IN IF found = {} THEN NULL ELSE MinOf(found)

\* the catch block's default logic, for the relevant gameweek rel (NULL: none);
\* new Date(null) is the epoch, which no now precedes
deadline_heuristic(gws, rel, t) ==
  IF rel = NULL THEN TRUE
  ELSE /\ gws[rel].deadline_time # NULL /\ t < gws[rel].deadline_time
       /\ gws[rel].status # "active"

\* let transfersAllowed = true, then the try / catch around the rpc
client_transfersAllowed(gws, rel, t, outcome) ==
  IF outcome = "data" THEN transfers_allowed(gws, t)
  ELSE IF outcome = "error" THEN TRUE
  ELSE deadline_heuristic(gws, rel, t)

\* timeUntilX && timeUntilX > 0 ? timeUntilX : null
time_until(ts, t) == IF ts # NULL /\ ts - t > 0 THEN ts - t ELSE NULL

\* the object handed to setGameweekStatus (the published status)
status_object(gws, t, outcome) ==
  LET current == find_flagged(gws, "is_current")
      next == find_flagged(gws, "is_next")
      rel == IF current # NULL THEN current ELSE next
  IN [current |-> current, next |-> next,
      transfersAllowed |-> client_transfersAllowed(gws, rel, t, outcome),
      timeUntilDeadline |-> IF rel = NULL THEN NULL ELSE time_until(gws[rel].deadline_time, t),
      timeUntilStart |-> IF rel = NULL THEN NULL ELSE time_until(gws[rel].start_time, t),
      timeUntilEnd |-> IF rel = NULL THEN NULL ELSE time_until(gws[rel].end_time, t),
      isGameweekActive |-> IF rel = NULL THEN FALSE ELSE gws[rel].status = "active"]

\* one run of the handler: the update_gameweek_status rpc (its failure is only
\* logged), the gameweeks query (its failure ends the run), the transfers_allowed
\* rpc and the publication
fetchGameweekStatus ==
  \E updated, fetched \in BOOLEAN : \E outcome \in RpcOutcome :
    /\ gameweeks' = IF updated THEN resolved(gameweeks, now) ELSE gameweeks
    /\ gameweekStatus' = IF fetched THEN status_object(gameweeks', now, outcome)
                         ELSE gameweekStatus
    /\ last' = [op |-> "fetchGameweekStatus", arg |-> 0, ok |-> fetched,
                transfers_rpc |-> outcome]
    /\ UNCHANGED <<now, real_matches, fantasy_teams, fantasy_team_gameweek_points,
                   rosters, players, gameweek_scores, finalized_through, returned,
                   txn, selectedGameweek, users, leagues, manager>>

\* ------------------------------------------- GameweekManager.setGameweekStatus
\* the handler's three store updates; ok1..ok3 say which of them the store applied
\* (a failure of the first one throws, a failure of the others is not looked at)
set_status_rows(gws, gameweek, status, ok2, ok3) ==
  LET row1 == [g \in DOMAIN gws |->
                 IF g = gameweek
                 THEN [gws[g] EXCEPT !.status = status,
                                     !.is_current = (status = "active"),
                                     !.is_next = FALSE,
                                     !.is_finished = (status = "finalized")]
                 ELSE gws[g]]
      row2 == IF status = "active" /\ ok2
              THEN [g \in DOMAIN gws |->
                      IF g # gameweek THEN [row1[g] EXCEPT !.is_current = FALSE] ELSE row1[g]]
              ELSE row1
      row3 == IF status = "active" /\ ok3
              THEN [g \in DOMAIN gws |->
                      IF g = gameweek + 1 THEN [row2[g] EXCEPT !.is_next = TRUE] ELSE row2[g]]
              ELSE row2
  IN row3

\* the status values the manager's buttons pass ("Start Gameweek", "Reset to Upcoming")
ButtonStatus == {"active", "upcoming"}

\* the store updates of the handler; the fetchGameweeks that ends it is the
\* action fetchGameweeks, and no action run next to this one reads the manager's list
setGameweekStatus(gameweek, status) ==
  /\ \/ \* the first update fails: the handler throws and reports the failure
        /\ gameweeks' = gameweeks
        /\ last' = [op |-> "setGameweekStatus", arg |-> gameweek, ok |-> FALSE]
     \/ \E ok2, ok3 \in (IF status = "active" THEN BOOLEAN ELSE {TRUE}) :
          /\ gameweeks' = set_status_rows(gameweeks, gameweek, status, ok2, ok3)
          /\ last' = [op |-> "setGameweekStatus", arg |-> gameweek, ok |-> TRUE]
  /\ UNCHANGED <<now, real_matches, fantasy_teams, fantasy_team_gameweek_points,
                 rosters, players, gameweek_scores, finalized_through, returned,
                 txn, gameweekStatus, selectedGameweek, users, leagues, manager>>

\* --------------------------------------- GameweekManager.calculateAllTeamPoints
\* mutant: the first failure ends the loop (break instead of continue)
teams_reached_until_failure(ts, failed) == { t \in ts : \A u \in failed : t <= u }

\* the teams the for loop reaches, given the teams whose iteration fails:
\* the catch block continues with the next team
teams_reached(ts, failed) == ts

\* how the loop can go: calc_failed and upsert_failed are the teams whose rpc and
\* whose upsert fail, written the teams whose ledger row is written
bulk_results ==
  { [calc_failed |-> f[1], upsert_failed |-> f[2],
     written |-> teams_reached(DOMAIN fantasy_teams, f[1] \cup f[2]) \ (f[1] \cup f[2])] :
       f \in { g \in (SUBSET DOMAIN fantasy_teams) \X (SUBSET DOMAIN fantasy_teams) :
                 g[1] \cap g[2] = {} } }

\* one run of the handler for a gameweek: the teams query (its failure is thrown),
\* then per team the calculate_fantasy_team_points rpc and the ledger upsert, each
\* of which may fail; calculatedCount is returned
calculateAllTeamPoints(gameweek) ==
  /\ \/ /\ last' = [op |-> "calculateAllTeamPoints", arg |-> gameweek, ok |-> FALSE,
                    calc_failed |-> {}, upsert_failed |-> {}]
        /\ UNCHANGED <<fantasy_team_gameweek_points, returned>>
     \/ \E r \in bulk_results :
          /\ fantasy_team_gameweek_points' =
               upsert_all(fantasy_team_gameweek_points, r.written, gameweek)
          /\ returned' = Cardinality(r.written)
          /\ last' = [op |-> "calculateAllTeamPoints", arg |-> gameweek, ok |-> TRUE,
                      calc_failed |-> r.calc_failed, upsert_failed |-> r.upsert_failed]
  /\ UNCHANGED <<now, gameweeks, real_matches, fantasy_teams, rosters, players,
                 gameweek_scores, finalized_through,
                 txn, gameweekStatus, selectedGameweek, users, leagues, manager>>

\* ------------------------------------------------- GameweekManager, the poller
\* autoCalculatePoints(gameweek) with the manager's gameweeks list gws: the ledgers
\* it can leave (a failure inside it is caught and logged)
autoCalculatePoints(gws, gameweek) ==
  IF /\ gameweek \in DOMAIN gws /\ gws[gameweek].status = "active"
     /\ \E m \in DOMAIN real_matches :
           real_matches[m].gameweek = gameweek /\ real_matches[m].status = "completed"
  THEN { upsert_all(fantasy_team_gameweek_points, r.written, gameweek) : r \in bulk_results }
  ELSE { fantasy_team_gameweek_points }

\* fetchGameweeks: the rows replace the manager's list; with nothing selected the
\* first active, else the first non-finalized, else the first gameweek gets selected
auto_selected(data, selected) ==
  IF selected # NULL \/ DOMAIN data = {} THEN selected
  ELSE IF \E g \in DOMAIN data : data[g].status = "active"
       THEN MinOf({ g \in DOMAIN data : data[g].status = "active" })
  ELSE IF \E g \in DOMAIN data : data[g].status # "finalized"
       THEN MinOf({ g \in DOMAIN data : data[g].status # "finalized" })
  ELSE MinOf(DOMAIN data)

\* the Refresh button's fetchGameweeks (a failed query changes nothing); a selection
\* it makes runs the effect on [selectedGameweek] with the new list
fetchGameweeks ==
  \E fetched \in BOOLEAN :
    /\ manager' = IF fetched THEN [manager EXCEPT !.gameweeks = gameweeks] ELSE manager
    /\ selectedGameweek' = IF fetched THEN auto_selected(gameweeks, selectedGameweek)
                           ELSE selectedGameweek
    /\ fantasy_team_gameweek_points' \in
         (IF selectedGameweek' # selectedGameweek
          THEN autoCalculatePoints(gameweeks, selectedGameweek')
          ELSE { fantasy_team_gameweek_points })
    /\ last' = [op |-> "fetchGameweeks", arg |-> 0, ok |-> fetched]
    /\ UNCHANGED <<now, gameweeks, real_matches, fantasy_teams, rosters, players,
                   gameweek_scores, finalized_through, returned,
                   txn, gameweekStatus, users, leagues>>

\* the operator selects a gameweek of the manager's list: the effect on
\* [selectedGameweek] refreshes its stats and auto-calculates it
selectGameweek(gameweek) ==
  /\ gameweek \in DOMAIN manager.gameweeks
  /\ selectedGameweek' = gameweek
  /\ fantasy_team_gameweek_points' \in autoCalculatePoints(manager.gameweeks, gameweek)
  /\ last' = [op |-> "selectGameweek", arg |-> gameweek, ok |-> TRUE]
  /\ UNCHANGED <<now, gameweeks, real_matches, fantasy_teams, rosters, players,
                 gameweek_scores, finalized_through, returned,
                 txn, gameweekStatus, users, leagues, manager>>

\* the "Calculate Points" button, shown while the manager's list has the gameweek
\* as active
calculatePointsButton(gameweek) ==
  /\ gameweek \in DOMAIN manager.gameweeks
  /\ manager.gameweeks[gameweek].status = "active"
  /\ calculateAllTeamPoints(gameweek)

\* what the interval callback reads as selectedGameweek and as gameweeks: the
\* values of the render in which the effect with the empty dependency list ran,
\* useState(null) and useState([])
closure_selectedGameweek == NULL
closure_gameweeks == << >>

\* one firing of setInterval(..., 10000): calls names the functions it invokes;
\* a failure of the update_gameweek_status rpc is only logged
poll_tick ==
  \E updated \in BOOLEAN :
    /\ fantasy_team_gameweek_points' \in
         (IF closure_selectedGameweek # NULL
          THEN autoCalculatePoints(closure_gameweeks, closure_selectedGameweek)
          ELSE { fantasy_team_gameweek_points })
    /\ gameweeks' = IF updated THEN resolved(gameweeks, now) ELSE gameweeks
    /\ last' = [op |-> "poll_tick", arg |-> 0, ok |-> updated,
                calls |-> (IF closure_selectedGameweek # NULL
                           THEN {"fetchGameweekStats", "autoCalculatePoints"} ELSE {})
                          \cup {"updateGameweekStatus"}]
    /\ UNCHANGED <<now, real_matches, fantasy_teams, rosters, players,
                   gameweek_scores, finalized_through, returned,
                   txn, gameweekStatus, selectedGameweek, users, leagues, manager>>

\* ------------------------------------------- GameweekManager.finalizeGameweek
\* the "Finalize Gameweek" button: shown for a locked or active gameweek whose
\* matches are all completed; the handler calls finalize_gameweek
finalizeGameweek(gameweek) ==
  /\ gameweeks[gameweek].status \in {"locked", "active"}
  /\ \A m \in DOMAIN real_matches :
        real_matches[m].gameweek = gameweek => real_matches[m].status = "completed"
  /\ \E confirmed, delivered, fetched \in BOOLEAN :
       IF ~confirmed
       THEN \* confirm() answered no: return before setProcessing(true)
            /\ last' = [op |-> "finalizeGameweek", arg |-> gameweek, ok |-> FALSE]
            /\ manager' = [manager EXCEPT !.toasts = {}]
            /\ UNCHANGED <<now, gameweeks, real_matches, fantasy_teams,
                           fantasy_team_gameweek_points, rosters, players, gameweek_scores,
                           finalized_through, returned,
                           txn, gameweekStatus, selectedGameweek, users, leagues>>
       ELSE IF ~delivered
       THEN \* the request does not reach the database: catch, then finally
            /\ last' = [op |-> "finalize_gameweek", arg |-> gameweek, ok |-> FALSE]
            /\ manager' = [manager EXCEPT !.toasts = {"error"}, !.processing = FALSE]
            /\ UNCHANGED <<now, gameweeks, real_matches, fantasy_teams,
                           fantasy_team_gameweek_points, rosters, players, gameweek_scores,
                           finalized_through, returned,
                           txn, gameweekStatus, selectedGameweek, users, leagues>>
       ELSE \* the rpc runs; on success toast.success, then fetchGameweeks, whose
            \* failure is thrown into the same catch
            /\ finalize_gameweek_rpc(gameweek)
            /\ manager' =
                 [gameweeks |-> IF last'.ok /\ fetched THEN gameweeks' ELSE manager.gameweeks,
                  processing |-> FALSE,
                  toasts |-> IF ~last'.ok THEN {"error"}
                             ELSE IF fetched THEN {"success"} ELSE {"success", "error"}]

\* ------------------------------------------- migration: create the Overall league
\* leagues maps league_id to a row, users maps user_id to a row

\* INSERT INTO leagues (...) VALUES ('Overall', ..., 0, ...) ON CONFLICT (name) DO NOTHING
insert_overall(lgs) ==
  IF \E l \in DOMAIN lgs : lgs[l].name = "Overall"
  THEN lgs
  ELSE [l \in DOMAIN lgs \cup {Cardinality(DOMAIN lgs) + 1} |->
          IF l \in DOMAIN lgs THEN lgs[l]
          ELSE [name |-> "Overall", current_participants |-> 0]]

\* SELECT user_id FROM users WHERE username = 'admin' OR email = '...' LIMIT 1:
\* the values the scalar subquery can have, NULL when no row matches
admin_subquery(us) ==
  LET rows == { u \in DOMAIN us :
                  us[u].username = "admin" \/ us[u].email = "bousselemghassen03@gmail.com" }
  IN IF rows = {} THEN {NULL} ELSE rows

\* UPDATE fantasy_teams SET league_id = overall_league_id WHERE user_id != (subquery)
\* AND (league_id IS NULL OR league_id != overall_league_id); a comparison with
\* NULL is not true
move_teams(fts, admin, overall_league_id) ==
  [t \in DOMAIN fts |->
     IF /\ fts[t].user_id # NULL /\ admin # NULL /\ fts[t].user_id # admin
        /\ (fts[t].league_id = NULL \/ fts[t].league_id # overall_league_id)
     THEN [fts[t] EXCEPT !.league_id = overall_league_id]
     ELSE fts[t]]

\* the whole migration file: the INSERT, then the DO block
overall_league_migration ==
  \E overall_league_id \in { l \in DOMAIN insert_overall(leagues) :
                               insert_overall(leagues)[l].name = "Overall" } :
  \E admin \in admin_subquery(users) :
    LET moved == move_teams(fantasy_teams, admin, overall_league_id)
        team_count == Cardinality({ t \in DOMAIN moved :
                                      moved[t].league_id = overall_league_id })
    IN /\ fantasy_teams' = moved
       /\ leagues' = [insert_overall(leagues) EXCEPT
                        ![overall_league_id].current_participants = team_count]
       /\ last' = [op |-> "overall_league_migration", arg |-> overall_league_id, ok |-> TRUE]
       /\ UNCHANGED <<now, gameweeks, real_matches, fantasy_team_gameweek_points,
                      rosters, players, gameweek_scores, finalized_through, returned,
                      txn, gameweekStatus, selectedGameweek, users, manager>>

\* ------------------------------------------------------------ environment
\* the wall clock advances
Tick ==
  /\ now < MaxTime
  /\ now' = now + 1
  /\ last' = [op |-> "tick", arg |-> 0, ok |-> TRUE]
  /\ UNCHANGED <<gameweeks, real_matches, fantasy_teams, fantasy_team_gameweek_points,
                 rosters, players, gameweek_scores, finalized_through, returned,
                 txn, gameweekStatus, selectedGameweek, users, leagues, manager>>

\* the results feed reports a match as completed
match_completed(m) ==
  /\ real_matches[m].status # "completed"
  /\ real_matches' = [real_matches EXCEPT ![m].status = "completed"]
  /\ last' = [op |-> "match_completed", arg |-> m, ok |-> TRUE]
  /\ UNCHANGED <<now, gameweeks, fantasy_teams, fantasy_team_gameweek_points,
                 rosters, players, gameweek_scores, finalized_through, returned,
                 txn, gameweekStatus, selectedGameweek, users, leagues, manager>>

\* the results feed records or corrects a player's score for a gameweek one of
\* whose matches is completed
score_posted(p, g, pts) ==
  /\ \E m \in DOMAIN real_matches :
        real_matches[m].gameweek = g /\ real_matches[m].status = "completed"
  /\ player_points(p, g) # pts
  /\ gameweek_scores' =
       [k \in DOMAIN gameweek_scores \cup {<<p, g>>} |->
          IF k = <<p, g>> THEN [total_points |-> pts, minutes_played |-> 90]
          ELSE gameweek_scores[k]]
  /\ last' = [op |-> "score_posted", arg |-> p, ok |-> TRUE]
  /\ UNCHANGED <<now, gameweeks, real_matches, fantasy_teams, fantasy_team_gameweek_points,
                 rosters, players, finalized_through, returned,
                 txn, gameweekStatus, selectedGameweek, users, leagues, manager>>

\* ------------------------------------------------------------ initial data
\* a season's schedule: gameweek g locks at 2g-1, starts at 2g and ends at 2g
season_gameweek(g) ==
  [status |-> "upcoming", is_current |-> FALSE, is_next |-> FALSE, is_finished |-> FALSE,
   deadline_time |-> 2 * g - 1, start_time |-> 2 * g, end_time |-> 2 * g]

new_team(league) ==
  [total_points |-> 0, gameweek_points |-> 0, current_gameweek |-> 1,
   transfers_made_this_gw |-> 1, transfers_banked |-> 0, league_id |-> league, rank |-> NULL]

entry(p, starter, captain, vice) ==
  [player_id |-> p, is_starter |-> starter, is_captain |-> captain, is_vice_captain |-> vice]

\* every team fields players 1, 2 and 3 and benches player 4; odd-numbered teams
\* make player 1 captain and player 2 vice-captain, the others the reverse
season_roster(t) ==
  { entry(1, TRUE, t % 2 = 1, t % 2 = 0), entry(2, TRUE, t % 2 = 0, t % 2 = 1),
    entry(3, TRUE, FALSE, FALSE), entry(4, FALSE, FALSE, FALSE) }

score(pts, mins) == [total_points |-> pts, minutes_played |-> mins]

season_scores ==
  [k \in Players \X GwNumbers |->
     IF k[1] = 3 THEN score(0, 0)
     ELSE IF k[1] = 4 THEN score(k[2], 90)
     ELSE score(k[1] + k[2], 90)]

InitCommon ==
  /\ players = [p \in Players |-> IF p = 1 THEN "GK" ELSE "MID"]
  /\ fantasy_team_gameweek_points = << >>
  /\ last = [op |-> "init", arg |-> 0, ok |-> TRUE]
  /\ finalized_through = 0
  /\ returned = NULL
  /\ txn = no_txn
  /\ gameweekStatus = initial_status
  /\ selectedGameweek = NULL
  /\ users = << >>
  /\ leagues = << >>
  /\ manager = unmounted

\* a new season: every gameweek upcoming, one scheduled match per gameweek, the
\* teams registered with no points
Init ==
  /\ InitCommon
  /\ now = 0
  /\ gameweeks = [g \in GwNumbers |-> season_gameweek(g)]
  /\ real_matches = [m \in GwNumbers |-> [gameweek |-> m, status |-> "scheduled"]]
  /\ fantasy_teams = [t \in Teams |-> new_team(1)]
  /\ rosters = [t \in Teams |-> season_roster(t)]
  /\ gameweek_scores = season_scores

Next ==
  \/ Tick
  \/ update_gameweek_status
  \/ \E g \in GwNumbers : finalize_gameweek(g)
  \/ \E g \in DOMAIN gameweeks : \E s \in ButtonStatus : setGameweekStatus(g, s)
  \/ \E m \in DOMAIN real_matches : match_completed(m)

\* the whole system
Spec == Init /\ [][Next]_vars

\* Settlement: the season of Init under the clock, the results feed, the status
\* poller and finalization.
NextSettle ==
  \/ Tick
  \/ update_gameweek_status
  \/ \E g \in GwNumbers : finalize_gameweek(g)
  \/ \E m \in DOMAIN real_matches : match_completed(m)

SpecSettle == Init /\ [][NextSettle]_vars

\* Status and flags: the season's gameweeks before any team has registered and
\* before any fixture is entered, under the clock and every operation that
\* writes the gameweeks table.
InitFlags ==
  /\ InitCommon
  /\ now = 0
  /\ gameweeks = [g \in GwNumbers |-> season_gameweek(g)]
  /\ real_matches = << >>
  /\ fantasy_teams = << >>
  /\ rosters = << >>
  /\ gameweek_scores = << >>

NextFlags ==
  \/ Tick
  \/ update_gameweek_status
  \/ \E g \in GwNumbers : finalize_gameweek(g)
  \/ \E g \in DOMAIN gameweeks : \E s \in ButtonStatus : setGameweekStatus(g, s)

SpecFlags == InitFlags /\ [][NextFlags]_vars

\* The status resolver as a function of the table and the clock: any set of
\* gameweek numbers in 1..NumGW (gaps included), every row in any status, one row
\* with any timestamps (NULL included, in any order) and the others on the season's
\* schedule, read at any instant.
TimeOrNull == {NULL} \cup (1..TimeSlots)

\* row g of such a table: status st, timestamps ts = <<deadline, start, end>>
table_row(st, ts) ==
  [status |-> st, is_current |-> FALSE, is_next |-> FALSE, is_finished |-> (st = "finalized"),
   deadline_time |-> ts[1], start_time |-> ts[2], end_time |-> ts[3]]

season_times(g) ==
  <<season_gameweek(g).deadline_time, season_gameweek(g).start_time, season_gameweek(g).end_time>>

InitTables ==
  /\ InitCommon
  /\ now \in 0..MaxTime
  /\ \E D \in SUBSET GwNumbers :
     \E f \in (IF D = {} THEN {0} ELSE D) :
     \E st \in [D -> Status] :
     \E ts \in TimeOrNull \X TimeOrNull \X TimeOrNull :
        gameweeks = [g \in D |-> table_row(st[g], IF g = f THEN ts ELSE season_times(g))]
  /\ real_matches = << >>
  /\ fantasy_teams = << >>
  /\ rosters = << >>
  /\ gameweek_scores = << >>

NextTables == update_gameweek_status

SpecTables == InitTables /\ [][NextTables]_vars

\* The transfer gate as a function of the table and the clock: the tables of
\* InitTables (the empty table included), read at any instant.
NextGate == call_transfers_allowed

SpecGate == InitTables /\ [][NextGate]_vars

\* The points calculator as a function of the roster and the scores: one team of
\* four players, any of them starting, any two of them captain and vice-captain,
\* every player with no score row for the gameweek or with any points in
\* -1..MaxPoints and 0 or 90 minutes; and the roster of the worked example.
PointValues == -1..MaxPoints
MinuteValues == {0, 90}

any_roster(S, c, v) == { entry(p, p \in S, p = c, p = v) : p \in Players }

\* starters scoring 5, 3 and 0 (0 minutes), a bench player of the third starter's
\* position scoring 4, the first starter captain
example_roster == any_roster({1, 2, 3}, 1, 2)

example_scores ==
  [k \in Players \X {1} |->
     IF k[1] = 1 THEN score(5, 90)
     ELSE IF k[1] = 2 THEN score(3, 90)
     ELSE IF k[1] = 3 THEN score(0, 0)
     ELSE score(4, 90)]

InitPoints ==
  /\ InitCommon
  /\ now = 0
  /\ gameweeks = << >>
  /\ real_matches = << >>
  /\ fantasy_teams = << >>
  /\ \/ /\ \E S \in SUBSET Players : \E c \in Players : \E v \in Players \ {c} :
             rosters = [t \in {1} |-> any_roster(S, c, v)]
        /\ \E R \in SUBSET Players : \E sc \in [R -> PointValues \X MinuteValues] :
             gameweek_scores = [k \in R \X {1} |-> score(sc[k[1]][1], sc[k[1]][2])]
     \/ /\ rosters = [t \in {1} |-> example_roster]
        /\ gameweek_scores = example_scores

NextPoints == \E t \in DOMAIN rosters : call_calculate_fantasy_team_points(t, 1)

SpecPoints == InitPoints /\ [][NextPoints]_vars

\* League ranking: the season of Init when gameweek 1 starts, with every team in
\* league 1, in league 2 or in no league and fielding either of the two season
\* rosters, under the results feed and the manager's finalizations.
Leagues == {1, 2}

InitLeagues ==
  /\ InitCommon
  /\ now = season_gameweek(1).start_time
  /\ gameweeks = resolved([g \in GwNumbers |-> season_gameweek(g)], season_gameweek(1).start_time)
  /\ real_matches = [m \in GwNumbers |-> [gameweek |-> m, status |-> "scheduled"]]
  /\ \E lg \in [Teams -> Leagues \cup {NULL}] :
        fantasy_teams = [t \in Teams |-> new_team(lg[t])]
  /\ \E r \in [Teams -> {1, 2}] : rosters = [t \in Teams |-> season_roster(r[t])]
  /\ gameweek_scores = season_scores

NextLeagues ==
  \/ \E g \in DOMAIN gameweeks : finalizeGameweek(g)
  \/ \E m \in DOMAIN real_matches : match_completed(m)

SpecLeagues == InitLeagues /\ [][NextLeagues]_vars

\* Finalization seen by other sessions: the season of Init, finalize_gameweek run
\* statement by statement (or failing part-way) while the status poller and the
\* results feed go on.
NextTxn ==
  \/ \E g \in GwNumbers : finalize_begin(g)
  \/ finalize_statement
  \/ finalize_abort
  \/ update_gameweek_status
  \/ \E m \in DOMAIN real_matches : match_completed(m)

SpecTxn == Init /\ [][NextTxn]_vars

\* The status hook as a function of the table and the clock: the tables of
\* InitTables read at any instant, every outcome of the handler's three requests.
NextHook == fetchGameweekStatus

SpecHook == InitTables /\ [][NextHook]_vars

\* Bulk calculation: the season of Init when gameweek 1 starts; the manager
\* calculates the active gameweek ("Calculate Points" is shown for an active
\* gameweek) with any of the per-team requests failing, and finalizes it once the
\* results feed has completed its matches.
InitStarted ==
  /\ InitCommon
  /\ now = season_gameweek(1).start_time
  /\ gameweeks = resolved([g \in GwNumbers |-> season_gameweek(g)], season_gameweek(1).start_time)
  /\ real_matches = [m \in GwNumbers |-> [gameweek |-> m, status |-> "scheduled"]]
  /\ fantasy_teams = [t \in Teams |-> new_team(1)]
  /\ rosters = [t \in Teams |-> season_roster(t)]
  /\ gameweek_scores = season_scores

NextCalc ==
  \/ \E g \in DOMAIN gameweeks : gameweeks[g].status = "active" /\ calculateAllTeamPoints(g)
  \/ \E g \in DOMAIN gameweeks : finalizeGameweek(g)
  \/ \E m \in DOMAIN real_matches : match_completed(m)

SpecCalc == InitStarted /\ [][NextCalc]_vars

\* The manager's poller: the season of InitStarted under the clock and the results
\* feed, with the operator selecting gameweeks and the interval firing.
NextPoller ==
  \/ Tick
  \/ poll_tick
  \/ fetchGameweeks
  \/ \E g \in DOMAIN gameweeks : selectGameweek(g)
  \/ \E m \in DOMAIN real_matches : match_completed(m)

SpecPoller == InitStarted /\ [][NextPoller]_vars

\* The database the migration can meet: two users, each possibly the admin by name
\* or by email; a league of friends and possibly an Overall league from an earlier
\* run; every team owned by a user and in a league or in none.
NumUsers == 2

user_rows ==
  [username : {"admin", "sami"}, email : {"bousselemghassen03@gmail.com", "sami@example.org"}]

league_tables ==
  { (1 :> [name |-> "Friends", current_participants |-> 0]) }
  \cup { (1 :> [name |-> "Friends", current_participants |-> 0])
         @@ (2 :> [name |-> "Overall", current_participants |-> c]) : c \in 0..1 }

InitMigration ==
  /\ players = [p \in Players |-> IF p = 1 THEN "GK" ELSE "MID"]
  /\ fantasy_team_gameweek_points = << >>
  /\ last = [op |-> "init", arg |-> 0, ok |-> TRUE]
  /\ finalized_through = 0
  /\ returned = NULL
  /\ txn = no_txn
  /\ gameweekStatus = initial_status
  /\ selectedGameweek = NULL
  /\ manager = unmounted
  /\ now = 0
  /\ gameweeks = [g \in GwNumbers |-> season_gameweek(g)]
  /\ real_matches = [m \in GwNumbers |-> [gameweek |-> m, status |-> "scheduled"]]
  /\ rosters = [t \in Teams |-> season_roster(t)]
  /\ gameweek_scores = season_scores
  /\ users \in [1..NumUsers -> user_rows]
  /\ leagues \in league_tables
  /\ \E owner \in [Teams -> 1..NumUsers] :
     \E lg \in [Teams -> DOMAIN leagues \cup {NULL}] :
        fantasy_teams = [t \in Teams |-> [user_id |-> owner[t]] @@ new_team(lg[t])]

NextMigration == overall_league_migration

SpecMigration == InitMigration /\ [][NextMigration]_vars

\* The manager at work on gameweek 1 of the started season: it reads the list,
\* selects, calculates and finalizes, its interval fires, and the results feed
\* completes matches and posts scores of the first gameweek.
NextManager ==
  \/ fetchGameweeks
  \/ poll_tick
  \/ selectGameweek(1)
  \/ calculatePointsButton(1)
  \/ finalizeGameweek(1)
  \/ match_completed(1)
  \/ \E pts \in 0..MaxPoints : score_posted(1, 1, pts)

SpecManager == InitStarted /\ [][NextManager]_vars

\* ================================================================= claims
is_call(l, name) == l.op = name

current_rows(gws) == { g \in DOMAIN gws : gws[g].is_current }
next_rows(gws) == { g \in DOMAIN gws : gws[g].is_next }

\* the real matches of gameweek g that are not completed
open_matches(g) ==
  { m \in DOMAIN real_matches :
      real_matches[m].gameweek = g /\ real_matches[m].status # "completed" }

\* C1: whenever a real match of gameweek g is not completed, finalize_gameweek(g)
\* fails and leaves gameweeks, fantasy_teams and the points ledger as they were.
C1_FailedFinalizeChangesNothing ==
  [][ (is_call(last', "finalize_gameweek") /\ open_matches(last'.arg) # {})
        => /\ last'.ok = FALSE
           /\ UNCHANGED <<gameweeks, fantasy_teams, fantasy_team_gameweek_points>> ]_vars

\* a refused finalization of a gameweek, after another gameweek was settled
C1_Witness ==
  /\ is_call(last, "finalize_gameweek") /\ ~last.ok
  /\ open_matches(last.arg) # {}
  /\ fantasy_team_gameweek_points # << >>

\* C2: right after a successful finalize_gameweek(g), gameweek g is finalized and
\* not current, gameweek g+1 (if any) is current and gameweek g+2 (if any) is next.
C2_AfterFinalizeFlags ==
  (is_call(last, "finalize_gameweek") /\ last.ok) =>
     LET g == last.arg
     IN /\ g \in DOMAIN gameweeks =>
             gameweeks[g].status = "finalized" /\ ~gameweeks[g].is_current
        /\ g + 1 \in DOMAIN gameweeks => gameweeks[g + 1].is_current
        /\ g + 2 \in DOMAIN gameweeks => gameweeks[g + 2].is_next

C2_Witness ==
  /\ is_call(last, "finalize_gameweek") /\ last.ok /\ last.arg = 1
  /\ gameweeks[1].status = "finalized" /\ ~gameweeks[1].is_current
  /\ gameweeks[2].is_current /\ gameweeks[3].is_next

\* sum of the ledger points of team t over gameweeks 1..k
ledger_sum(t, k) ==
  LET pts == [g \in 1..k |-> fantasy_team_gameweek_points[<<t, g>>].points]
  IN SumOver(pts, 1..k)

\* C3: once gameweeks 1..k have each been finalized once, in order, every team's
\* total_points is the sum of its ledger points over gameweeks 1..k.
C3_TotalIsLedgerSum ==
  finalized_through # NULL =>
     \A t \in DOMAIN fantasy_teams :
        fantasy_teams[t].total_points = ledger_sum(t, finalized_through)

\* C4: a successful finalize_gameweek(g) that repeats the latest finalization (the
\* teams' settled snapshot is still that of g, rosters and scores as they were)
\* leaves every team's total_points as it was.
C4_RefinalizeKeepsTotals ==
  [][ ( /\ is_call(last', "finalize_gameweek") /\ last'.ok
        /\ \A t \in DOMAIN fantasy_teams :
              /\ fantasy_teams[t].current_gameweek = last'.arg + 1
              /\ <<t, last'.arg>> \in DOMAIN fantasy_team_gameweek_points )
        => \A t \in DOMAIN fantasy_teams :
              fantasy_teams'[t].total_points = fantasy_teams[t].total_points ]_vars

\* gameweek 1 was finalized twice and nothing else was: its points are counted once
C4_Witness ==
  /\ is_call(last, "finalize_gameweek") /\ last.ok /\ last.arg = 1
  /\ finalized_through = NULL
  /\ DOMAIN fantasy_team_gameweek_points = Teams \X {1}
  /\ \A t \in Teams :
        /\ fantasy_teams[t].total_points > 0
        /\ fantasy_teams[t].total_points = fantasy_team_gameweek_points[<<t, 1>>].points

\* C5: in every state reached by update_gameweek_status, finalize_gameweek and
\* setGameweekStatus calls, at most one gameweek is current and at most one is next.
C5_AtMostOneCurrentAndNext ==
  /\ Cardinality(current_rows(gameweeks)) <= 1
  /\ Cardinality(next_rows(gameweeks)) <= 1

\* the qualification of C6, read on the table the call starts from
qualifies(gw, t) ==
  \/ gw.start_time # NULL /\ gw.end_time # NULL /\ gw.start_time <= t /\ t <= gw.end_time
  \/ gw.status \in {"active", "upcoming", "locked"}
  \/ gw.start_time # NULL /\ gw.start_time > t

\* C6: update_gameweek_status leaves exactly one current gameweek when a gameweek
\* qualifies (now inside its window, or status active, upcoming or locked, or its
\* start in the future), and none when no gameweek qualifies.
C6_ExactlyOneCurrent ==
  [][ is_call(last', "update_gameweek_status") =>
        IF \E g \in DOMAIN gameweeks : qualifies(gameweeks[g], now)
        THEN Cardinality(current_rows(gameweeks')) = 1
        ELSE current_rows(gameweeks') = {} ]_vars

\* the resolver chose between two gameweeks that both qualified
C6_Witness ==
  /\ is_call(last, "update_gameweek_status")
  /\ Cardinality(DOMAIN gameweeks) = 2
  /\ \A g \in DOMAIN gameweeks : gameweeks[g].status \in {"upcoming", "locked", "active"}
  /\ Cardinality(current_rows(gameweeks)) = 1

\* C7 as stated: after update_gameweek_status the next gameweek is numbered
\* current + 1, and there is none without a current gameweek or without that number.
C7_NextIsCurrentPlusOne ==
  is_call(last, "update_gameweek_status") =>
     \A g \in next_rows(gameweeks) : \E c \in current_rows(gameweeks) : g = c + 1

\* C7 amended: after update_gameweek_status the next gameweek is the one with the
\* smallest number above the current gameweek's, and there is none without a
\* current gameweek or without a higher-numbered gameweek.
C7_NextIsNextHigher ==
  is_call(last, "update_gameweek_status") =>
     \A g \in DOMAIN gameweeks :
        gameweeks[g].is_next <=>
           \E c \in current_rows(gameweeks) :
              /\ g > c
              /\ \A h \in DOMAIN gameweeks : h > c => g <= h

\* gameweeks 1 and 3 only: 1 is current and 3 is next
C7_Witness ==
  /\ is_call(last, "update_gameweek_status")
  /\ DOMAIN gameweeks = {1, 3}
  /\ gameweeks[1].is_current /\ gameweeks[3].is_next

\* C8: a second update_gameweek_status at the same instant changes no gameweek.
C8_ResolverIdempotent ==
  [][ (is_call(last, "update_gameweek_status") /\ is_call(last', "update_gameweek_status"))
        => gameweeks' = gameweeks ]_vars

\* C9: update_gameweek_status leaves a finalized gameweek finalized, whatever the
\* clock and the gameweek's timestamps are.
C9_FinalizedIsSticky ==
  [][ is_call(last', "update_gameweek_status") =>
        \A g \in DOMAIN gameweeks :
           gameweeks[g].status = "finalized" => gameweeks'[g].status = "finalized" ]_vars

\* a finalized gameweek whose deadline is still ahead went through the resolver
C9_Witness ==
  /\ is_call(last, "update_gameweek_status")
  /\ \E g \in DOMAIN gameweeks :
        /\ gameweeks[g].status = "finalized"
        /\ gameweeks[g].deadline_time # NULL /\ gameweeks[g].start_time # NULL
        /\ gameweeks[g].end_time # NULL
        /\ now < gameweeks[g].deadline_time

\* the status C10 prescribes at time t for timestamps d <= s <= e
status_at(d, s, e, t) ==
  IF t < d THEN "upcoming"
  ELSE IF t < s THEN "locked"
  ELSE IF t <= e THEN "active"
  ELSE "finalized"

well_ordered(gw) ==
  /\ gw.deadline_time # NULL /\ gw.start_time # NULL /\ gw.end_time # NULL
  /\ gw.deadline_time <= gw.start_time /\ gw.start_time <= gw.end_time

\* C10: update_gameweek_status gives every gameweek that was not finalized and has
\* deadline_time <= start_time <= end_time the status of the instant: upcoming
\* before the deadline, locked from the deadline to the start, active from the
\* start to the end, finalized after the end.
C10_StatusFollowsClock ==
  [][ is_call(last', "update_gameweek_status") =>
        \A g \in DOMAIN gameweeks :
           (gameweeks[g].status # "finalized" /\ well_ordered(gameweeks[g])) =>
              gameweeks'[g].status =
                 status_at(gameweeks[g].deadline_time, gameweeks[g].start_time,
                           gameweeks[g].end_time, now) ]_vars

\* a gameweek between its deadline and its start came out locked
C10_Witness ==
  /\ is_call(last, "update_gameweek_status")
  /\ \E g \in DOMAIN gameweeks :
        /\ well_ordered(gameweeks[g])
        /\ gameweeks[g].deadline_time <= now /\ now < gameweeks[g].start_time
        /\ gameweeks[g].status = "locked"

\* C11: transfers_allowed returns false whenever some gameweek has status active.
C11_ClosedWhileActive ==
  (is_call(last, "transfers_allowed") /\ \E g \in DOMAIN gameweeks : gameweeks[g].status = "active")
     => returned = FALSE

\* the gate was asked while a gameweek was active and no deadline had passed
C11_Witness ==
  /\ is_call(last, "transfers_allowed")
  /\ \E g \in DOMAIN gameweeks : gameweeks[g].status = "active"
  /\ \A g \in DOMAIN gameweeks :
        gameweeks[g].deadline_time # NULL => now < gameweeks[g].deadline_time
  /\ returned = FALSE

\* C12: transfers_allowed returns true when the gameweeks table is empty.
C12_OpenWhenNoGameweeks ==
  (is_call(last, "transfers_allowed") /\ DOMAIN gameweeks = {}) => returned = TRUE

\* a gameweek that is upcoming or locked and whose deadline is not after t
deadline_hit(gw, t) ==
  /\ gw.status \in {"upcoming", "locked"}
  /\ gw.deadline_time # NULL /\ gw.deadline_time <= t

\* C13: transfers_allowed returns true if and only if no gameweek is active and no
\* upcoming or locked gameweek has deadline_time <= now.
C13_GateFormula ==
  is_call(last, "transfers_allowed") =>
     (returned = TRUE <=>
        /\ \A g \in DOMAIN gameweeks : gameweeks[g].status # "active"
        /\ \A g \in DOMAIN gameweeks : ~deadline_hit(gameweeks[g], now))

\* -- the points calculator, as sections 4.3 and 6 of the specification state it
\* the recorded points and minutes of player p in the gameweek (no record: 0)
recorded_points(p) ==
  IF <<p, 1>> \in DOMAIN gameweek_scores THEN gameweek_scores[<<p, 1>>].total_points ELSE 0

recorded_minutes(p) ==
  IF <<p, 1>> \in DOMAIN gameweek_scores THEN gameweek_scores[<<p, 1>>].minutes_played ELSE 0

starters(t) == { e \in rosters[t] : e.is_starter }

\* the points of the bench players who may replace starter e
eligible_sub_points(t, e) ==
  { recorded_points(b.player_id) :
      b \in { r \in rosters[t] : /\ ~r.is_starter
                                 /\ players[r.player_id] = players[e.player_id]
                                 /\ recorded_minutes(r.player_id) > 0 } }

expected_contribution(t, e) ==
  IF recorded_minutes(e.player_id) > 0 THEN recorded_points(e.player_id)
  ELSE IF eligible_sub_points(t, e) = {} THEN 0
  ELSE CHOOSE x \in eligible_sub_points(t, e) : \A y \in eligible_sub_points(t, e) : y <= x

expected_base(t) ==
  LET c == [e \in starters(t) |-> expected_contribution(t, e)]
  IN SumOver(c, starters(t))

\* what the captain contributed to the base (nothing when not in the lineup)
captain_contribution(t) ==
  LET caps == { e \in starters(t) : e.is_captain }
  IN IF caps = {} THEN 0 ELSE expected_contribution(t, CHOOSE e \in caps : TRUE)

\* the vice-captain's recorded score (0 without a vice-captain)
vice_captain_score(t) ==
  LET vcs == { e \in rosters[t] : e.is_vice_captain }
  IN IF vcs = {} THEN 0 ELSE recorded_points((CHOOSE e \in vcs : TRUE).player_id)

\* the bonus section 4.3 prescribes; for a negative captain contribution, which
\* step 5 does not cover, both readings are allowed here (C18 decides between them)
allowed_bonus(t) ==
  IF captain_contribution(t) > 0 THEN {captain_contribution(t)}
  ELSE IF captain_contribution(t) = 0
       THEN {IF vice_captain_score(t) > 0 THEN vice_captain_score(t) ELSE 0}
       ELSE {0, IF vice_captain_score(t) > 0 THEN vice_captain_score(t) ELSE 0}

\* C14: calculate_fantasy_team_points returns the sum of the starters' contributions
\* (recorded points for a starter with minutes, a missing record counting 0) plus
\* the captain/vice-captain bonus; the worked example yields 17.
C14_SumOfStartersPlusBonus ==
  is_call(last, "calculate_fantasy_team_points") =>
     /\ returned - expected_base(last.arg) \in allowed_bonus(last.arg)
     /\ (rosters[last.arg] = example_roster /\ gameweek_scores = example_scores)
           => returned = 17

\* the worked example: 5 + 3 + 4 and the captain's 5 again
C14_Witness ==
  /\ is_call(last, "calculate_fantasy_team_points")
  /\ rosters[last.arg] = example_roster /\ gameweek_scores = example_scores
  /\ expected_base(last.arg) = 12
  /\ returned = 17

\* C15: a starter with 0 minutes contributes the points of the highest-scoring
\* bench player of his position with nonzero minutes, and 0 when there is none.
C15_ZeroMinuteStarterIsSubstituted ==
  is_call(last, "calculate_fantasy_team_points") =>
     \A e \in starters(last.arg) :
        recorded_minutes(e.player_id) = 0 =>
           contribution(last.arg, 1, e) =
              IF eligible_sub_points(last.arg, e) = {} THEN 0
              ELSE CHOOSE x \in eligible_sub_points(last.arg, e) :
                      \A y \in eligible_sub_points(last.arg, e) : y <= x

\* the only starter has 0 minutes and recorded points of his own, two bench players
\* of his position played and scored 0 and 1, and the total is 1
C15_Witness ==
  /\ is_call(last, "calculate_fantasy_team_points")
  /\ \E e \in starters(last.arg) :
        /\ starters(last.arg) = {e}
        /\ ~e.is_captain /\ ~e.is_vice_captain
        /\ recorded_minutes(e.player_id) = 0 /\ recorded_points(e.player_id) = -1
        /\ eligible_sub_points(last.arg, e) = {0, 1}
        /\ returned = 1
  /\ captain_contribution(last.arg) = 0 /\ vice_captain_score(last.arg) <= 0

\* C16: when the captain starts and contributes a positive X (his own points, or
\* his substitute's when he played 0 minutes), the total includes X twice.
C16_CaptainCountsTwice ==
  (is_call(last, "calculate_fantasy_team_points") /\ captain_contribution(last.arg) > 0)
     => returned = expected_base(last.arg) + captain_contribution(last.arg)

\* a substituted captain whose own recorded score differs from the substitute's
C16_Witness ==
  /\ is_call(last, "calculate_fantasy_team_points")
  /\ \E e \in starters(last.arg) :
        /\ e.is_captain
        /\ recorded_minutes(e.player_id) = 0
        /\ recorded_points(e.player_id) # captain_contribution(last.arg)
  /\ captain_contribution(last.arg) > 0
  /\ returned = expected_base(last.arg) + captain_contribution(last.arg)

\* C17: when the captain's contribution is 0 and the vice-captain has a positive
\* recorded score V, V is added once as bonus and there is no captain bonus.
C17_ViceCaptainFallback ==
  ( /\ is_call(last, "calculate_fantasy_team_points")
    /\ captain_contribution(last.arg) = 0
    /\ vice_captain_score(last.arg) > 0 )
     => returned = expected_base(last.arg) + vice_captain_score(last.arg)

\* a starting captain with 0 minutes and no substitute, and a scoring vice-captain
C17_Witness ==
  /\ is_call(last, "calculate_fantasy_team_points")
  /\ \E e \in starters(last.arg) :
        /\ e.is_captain
        /\ recorded_minutes(e.player_id) = 0
        /\ eligible_sub_points(last.arg, e) = {}
  /\ vice_captain_score(last.arg) > 0
  /\ returned = expected_base(last.arg) + vice_captain_score(last.arg)

\* C18: for every captain contribution other than 0, negative ones included, the
\* vice-captain's score is not added as bonus.
C18_FallbackOnlyOnZero ==
  (is_call(last, "calculate_fantasy_team_points") /\ captain_contribution(last.arg) # 0)
     => returned = expected_base(last.arg)
                     + (IF captain_contribution(last.arg) > 0
                        THEN captain_contribution(last.arg) ELSE 0)

\* C19: calculate_fantasy_team_points returns 0 for a roster without starters,
\* whatever the scores of the bench, the captain and the vice-captain are.
C19_NoStartersScoreZero ==
  (is_call(last, "calculate_fantasy_team_points") /\ starters(last.arg) = {})
     => returned = 0

league_members(L) == { t \in DOMAIN fantasy_teams : fantasy_teams[t].league_id = L }

\* C20: after a successful finalize_gameweek(g), in every league with N members the
\* rank_in_league values recorded for gameweek g are exactly 1..N without
\* duplicates, and a member with strictly more gameweek-g points has a strictly
\* smaller rank than a member with fewer.
C20_LeagueRanksArePermutation ==
  (is_call(last, "finalize_gameweek") /\ last.ok) =>
     \A L \in { fantasy_teams[t].league_id : t \in DOMAIN fantasy_teams } \ {NULL} :
        LET row(t) == fantasy_team_gameweek_points[<<t, last.arg>>]
        IN /\ { row(t).rank_in_league : t \in league_members(L) }
                = 1..Cardinality(league_members(L))
           /\ \A a, b \in league_members(L) :
                 row(a).points > row(b).points => row(a).rank_in_league < row(b).rank_in_league

\* two members of one league finished the gameweek level on points
C20_Witness ==
  /\ is_call(last, "finalize_gameweek") /\ last.ok
  /\ \E a, b \in DOMAIN fantasy_teams :
        /\ a # b
        /\ fantasy_teams[a].league_id # NULL
        /\ fantasy_teams[a].league_id = fantasy_teams[b].league_id
        /\ fantasy_team_gameweek_points[<<a, last.arg>>].points
             = fantasy_team_gameweek_points[<<b, last.arg>>].points
        /\ fantasy_team_gameweek_points[<<a, last.arg>>].rank_in_league = 1
        /\ fantasy_team_gameweek_points[<<b, last.arg>>].rank_in_league = 2

\* C21: league-rank ties are broken deterministically: from one store state,
\* finalize_gameweek(g) can assign the members' rank_in_league in one way only,
\* members of one league with equal gameweek-g points included.
C21_LeagueTiesDeterministic ==
  (is_call(last, "finalize_gameweek") /\ last.ok) =>
     Cardinality(league_rankings(fantasy_teams, fantasy_team_gameweek_points, last.arg)) = 1

\* C22: after a successful finalize_gameweek(g) the teams' rank values are a
\* permutation of 1..N, ordered by total_points descending and, among teams with
\* equal total_points, by team identifier ascending.
C22_OverallRankIsOrdered ==
  (is_call(last, "finalize_gameweek") /\ last.ok) =>
     /\ { fantasy_teams[t].rank : t \in DOMAIN fantasy_teams }
          = 1..Cardinality(DOMAIN fantasy_teams)
     /\ \A a, b \in DOMAIN fantasy_teams :
           ( \/ fantasy_teams[a].total_points > fantasy_teams[b].total_points
             \/ /\ fantasy_teams[a].total_points = fantasy_teams[b].total_points
                /\ a < b )
              => fantasy_teams[a].rank < fantasy_teams[b].rank

\* two teams level on total_points, the lower identifier ranked first
C22_Witness ==
  /\ is_call(last, "finalize_gameweek") /\ last.ok
  /\ \E a, b \in DOMAIN fantasy_teams :
        /\ a < b
        /\ fantasy_teams[a].total_points = fantasy_teams[b].total_points
        /\ fantasy_teams[a].total_points > 0
        /\ fantasy_teams[a].rank = 1 /\ fantasy_teams[b].rank = 2

\* C24: finalize_gameweek(g) called for a gameweek that is not active or locked, or
\* for a number without a gameweek row, settles no points and changes no gameweek.
C24_FinalizeOnlyFromActiveOrLocked ==
  [][ ( /\ is_call(last', "finalize_gameweek")
        /\ \/ last'.arg \notin DOMAIN gameweeks
           \/ gameweeks[last'.arg].status \notin {"active", "locked"} )
        => UNCHANGED <<gameweeks, fantasy_teams, fantasy_team_gameweek_points>> ]_vars

\* C25: a finalized gameweek stays finalized under every update_gameweek_status
\* and finalize_gameweek call.
C25_FinalizedForever ==
  [][ \A g \in DOMAIN gameweeks :
         gameweeks[g].status = "finalized" => gameweeks'[g].status = "finalized" ]_vars

\* C29: setGameweekStatus, called with at most one gameweek current, never leaves
\* two gameweeks with is_current = true, whichever of its store updates fail.
C29_NoMultiCurrentFromSetStatus ==
  [][ (is_call(last', "setGameweekStatus") /\ Cardinality(current_rows(gameweeks)) <= 1)
        => Cardinality(current_rows(gameweeks')) <= 1 ]_vars

\* what a finalization of g looks like to a reader of the three tables
settled(g, gws, fts, ledger) ==
  /\ \A t \in DOMAIN fts :
        /\ <<t, g>> \in DOMAIN ledger
        /\ fts[t].gameweek_points = ledger[<<t, g>>].points
        /\ fts[t].current_gameweek = g + 1
        /\ fts[t].rank # NULL
        /\ fts[t].league_id # NULL => ledger[<<t, g>>].rank_in_league # NULL
  /\ gws[g].status = "finalized" /\ ~gws[g].is_current
  /\ g + 1 \in DOMAIN gws => gws[g + 1].is_current

relevant_gameweek(st) == IF st.current # NULL THEN st.current ELSE st.next

\* C26: when the transfers_allowed call fails in fetchGameweekStatus (rejecting or
\* returning an error), the published transfersAllowed is the deadline heuristic:
\* true iff now is before the relevant gameweek's deadline and that gameweek is
\* not active; current and next are published as found in the table.
C26_FallbackIsDeadlineHeuristic ==
  [][ ( /\ is_call(last', "fetchGameweekStatus") /\ last'.ok
        /\ last'.transfers_rpc \in {"error", "rejected"} )
        => /\ gameweekStatus'.current \in current_rows(gameweeks') \cup {NULL}
           /\ gameweekStatus'.next \in next_rows(gameweeks') \cup {NULL}
           /\ relevant_gameweek(gameweekStatus') # NULL =>
                LET rel == gameweeks'[relevant_gameweek(gameweekStatus')]
                IN gameweekStatus'.transfersAllowed
                     = ( /\ rel.deadline_time # NULL /\ now < rel.deadline_time
                         /\ rel.status # "active" ) ]_vars

\* the ledger row of team t for gameweek g, NULL when there is none
ledger_points(ledger, t, g) ==
  IF <<t, g>> \in DOMAIN ledger THEN ledger[<<t, g>>].points ELSE NULL

\* C27: in calculateAllTeamPoints a failed calculation or upsert for one team does
\* not stop the loop: every team whose two requests succeed gets its points
\* written, the others keep what they had, and the returned count is the number of
\* teams for which both succeeded.
C27_PartialFailureContinues ==
  [][ (is_call(last', "calculateAllTeamPoints") /\ last'.ok) =>
        LET failed == last'.calc_failed \cup last'.upsert_failed
        IN /\ returned' = Cardinality(DOMAIN fantasy_teams \ failed)
           /\ \A t \in DOMAIN fantasy_teams :
                 ledger_points(fantasy_team_gameweek_points', t, last'.arg) =
                    IF t \in failed
                    THEN ledger_points(fantasy_team_gameweek_points, t, last'.arg)
                    ELSE calculate_fantasy_team_points(t, last'.arg) ]_vars

\* the first team's calculation failed and the second team was still processed
C27_Witness ==
  /\ is_call(last, "calculateAllTeamPoints") /\ last.ok
  /\ last.calc_failed = {1}
  /\ returned = Cardinality(Teams) - 1
  /\ <<1, last.arg>> \notin DOMAIN fantasy_team_gameweek_points
  /\ <<2, last.arg>> \in DOMAIN fantasy_team_gameweek_points

\* C28: every firing of the manager's interval invokes update_gameweek_status and,
\* when a gameweek is selected at that time, also refreshes that gameweek's stats
\* and runs the automatic point calculation for it.
C28_TickRefreshesSelected ==
  [][ is_call(last', "poll_tick") =>
        /\ "updateGameweekStatus" \in last'.calls
        /\ selectedGameweek # NULL =>
              {"fetchGameweekStats", "autoCalculatePoints"} \subseteq last'.calls ]_vars

\* the users the subquery of the migration matches
is_admin(u) ==
  u \in DOMAIN users /\
  (users[u].username = "admin" \/ users[u].email = "bousselemghassen03@gmail.com")

\* C30: after the Overall-league migration every fantasy team not owned by the
\* admin user is in the Overall league, also when no admin user exists, and the
\* Overall league's current_participants is the number of teams in that league.
C30_AllNonAdminTeamsMoved ==
  [][ is_call(last', "overall_league_migration") =>
        /\ \A t \in DOMAIN fantasy_teams' :
              ~is_admin(fantasy_teams'[t].user_id) =>
                 fantasy_teams'[t].league_id = last'.arg
        /\ leagues'[last'.arg].current_participants =
              Cardinality({ t \in DOMAIN fantasy_teams' :
                              fantasy_teams'[t].league_id = last'.arg }) ]_vars

\* C31: every gameweek with status finalized has been settled: it has a ledger row
\* for every fantasy team and every team's current_gameweek pointer is beyond it.
C31_FinalizedIsSettled ==
  \A g \in DOMAIN gameweeks :
     gameweeks[g].status = "finalized" =>
        \A t \in DOMAIN fantasy_teams :
           /\ <<t, g>> \in DOMAIN fantasy_team_gameweek_points
           /\ fantasy_teams[t].current_gameweek > g

\* C32: after update_gameweek_status the gameweek flagged is_current is not a
\* finalized one while some other gameweek is not finalized; so a gameweek that
\* finalize_gameweek has finalized is not flagged is_current again by it.
C32_CurrentIsNotFinalized ==
  [][ is_call(last', "update_gameweek_status") =>
        \A g \in DOMAIN gameweeks' :
           (gameweeks'[g].is_current /\ gameweeks'[g].status = "finalized") =>
              \A h \in DOMAIN gameweeks' : gameweeks'[h].status = "finalized" ]_vars

\* the starters of team t with 0 minutes for whom the substitute query finds a row
substituted_starters(t) ==
  { e \in starters(t) : recorded_minutes(e.player_id) = 0 /\ substitute_rows(t, 1, e) # {} }

\* C33: each bench player's points are counted for at most one absent starter: the
\* substituted starters can be given pairwise different bench players among the
\* rows their substitute queries return.
C33_BenchPlayerUsedOnce ==
  is_call(last, "calculate_fantasy_team_points") =>
     \E f \in [substituted_starters(last.arg) -> rosters[last.arg]] :
        /\ \A e \in substituted_starters(last.arg) : f[e] \in substitute_rows(last.arg, 1, e)
        /\ \A e1, e2 \in substituted_starters(last.arg) : e1 # e2 => f[e1] # f[e2]

\* C34: once finalize_gameweek(g) has succeeded, the ledger points of (team, g) do
\* not change under poller ticks, calculateAllTeamPoints / autoCalculatePoints runs
\* on the manager's list, and score postings.
C34_FinalizedLedgerIsFrozen ==
  [][ \A g \in DOMAIN gameweeks : \A t \in DOMAIN fantasy_teams :
        ( /\ finalized_through # NULL /\ g <= finalized_through
          /\ last'.op \in {"poll_tick", "calculateAllTeamPoints", "selectGameweek",
                           "fetchGameweeks", "score_posted"} )
        => ledger_points(fantasy_team_gameweek_points', t, g) =
              ledger_points(fantasy_team_gameweek_points, t, g) ]_vars

\* C36: the manager's finalizeGameweek reports faithfully: without the operator's
\* confirmation the store is untouched, the failure toast is shown only if the
\* gameweek is not finalized in the store, the success toast only if it is, and
\* processing is false afterwards.
C36_FinalizeReportsFaithfully ==
  [][ last'.op \in {"finalizeGameweek", "finalize_gameweek"} =>
        /\ last'.op = "finalizeGameweek" =>
              /\ gameweeks' = gameweeks /\ fantasy_teams' = fantasy_teams
              /\ fantasy_team_gameweek_points' = fantasy_team_gameweek_points
        /\ "error" \in manager'.toasts => gameweeks'[last'.arg].status # "finalized"
        /\ "success" \in manager'.toasts => gameweeks'[last'.arg].status = "finalized"
        /\ ~manager'.processing ]_vars

\* C35: in every state reached through update_gameweek_status, finalize_gameweek
\* and setGameweekStatus a gameweek has is_finished = true exactly when its status
\* is finalized.
C35_FinishedIffFinalized ==
  \A g \in DOMAIN gameweeks :
     gameweeks[g].is_finished <=> gameweeks[g].status = "finalized"

====
